---- MODULE Spec2Model ----
(***************************************************************************)
(* The rendezvous client of Sources/Runtime/Microsoft.Psi.Interop/         *)
(* Rendezvous/RendezvousClient.py as a state machine: the wire codec, the  *)
(* handshake and snapshot of start(), the listener thread's read loop, the *)
(* outbound operations and the table they share.                           *)
(*                                                                         *)
(* The specifications:                                                     *)
(*   Spec        start() as written, from construction, with the outbound  *)
(*               calls.  Line 98 calls struct.unpack with one argument, so *)
(*               every start() that gets through the handshake raises      *)
(*               TypeError there.                                          *)
(*   SpecEngine  lines 102-212 taken on their own: one client standing at  *)
(*               line 102 of start() (socket connected, callbacks stored,  *)
(*               versions exchanged, client address read), then the        *)
(*               snapshot loop, the thread start and the listener exactly  *)
(*               as coded, against a server that may send any frame, cut   *)
(*               its messages into segments, and close.  This is the code  *)
(*               that line 98 keeps Spec from reaching.                    *)
(*   SpecCalls   the same code with the caller making its outbound calls   *)
(*               beside the listener; the server sends whole messages.     *)
(*   SpecShared  lines 102-212 with two client instances in one process.   *)
(*   SpecStart   the runs of Spec's start() and those of SpecEngine, joined *)
(*               without the outbound calls.                               *)
(*   SpecLive    lines 102-212 with the outbound calls, also after stop(), *)
(*               and a listener thread that is scheduled whenever it can   *)
(*               take a step.                                              *)
(*   SpecCodec   addProcess over processes of every endpoint kind and      *)
(*               string length, relayed by the server and decoded by the   *)
(*               listener.                                                 *)
(*   SpecWrites  lines 102-212 with the outbound methods taken one         *)
(*               socket.send at a time, on the caller's thread and, from a *)
(*               callback, on the listener's.                              *)
(*   SpecCut     lines 102-212 against a server whose connection may break *)
(*               inside an add-process frame.                              *)
(***************************************************************************)
EXTENDS Integers, Sequences, FiniteSets, TLC

(***************************************************************************)
(* Python values.  A str and a bytes object with the same content are      *)
(* different values ('a' != b'a'), so each carries its type.               *)
(***************************************************************************)
Str(cps) == <<"str", cps>>

Bytes(bs) == <<"bytes", bs>>

Min(a, b) == IF a < b THEN a ELSE b

(***************************************************************************)
(* The socket as recv() sees it: the segments that have arrived and are    *)
(* not yet consumed, whether the peer has closed behind them, and the      *)
(* local socket's state.  A recv() returns what has arrived, at most n     *)
(* bytes: it never waits for the rest of a value.                          *)
(*                                                                         *)
(* The state is "new", "connected", "closed" or "held".  "held" is a       *)
(* socket that close() was called on while another thread was blocked in   *)
(* recv(): the object is closed for every later call, but the call in      *)
(* progress keeps the connection and returns when bytes or the peer's      *)
(* close arrive (Linux), so the next recv() to return is that one.         *)
(***************************************************************************)
Ok(v, s) == [tag |-> "ok", val |-> v, s |-> s]

Raise(e, s) == [tag |-> "raise", val |-> e, s |-> s]

Block(s) == [tag |-> "block", val |-> "blocked", s |-> s]

Returned(state) == IF state = "held" THEN "closed" ELSE state

Recv(s, n) ==
    IF n < 0 THEN Raise("ValueError", s)
    ELSE IF s.state \notin {"connected", "held"} THEN Raise("OSError", s)
    ELSE IF n = 0 THEN Ok(<<>>, s)
    ELSE IF s.buf = <<>>
    THEN (IF s.eof THEN Ok(<<>>, [s EXCEPT !.state = Returned(@)]) ELSE Block(s))
    ELSE LET h == Head(s.buf)
             k == Min(n, Len(h))
         IN  Ok(SubSeq(h, 1, k),
                [s EXCEPT !.buf = IF k = Len(h) THEN Tail(s.buf)
                                  ELSE <<SubSeq(h, k + 1, Len(h))>> \o Tail(s.buf),
                          !.state = Returned(@)])

(***************************************************************************)
(* struct.unpack: the buffer must hold exactly the bytes of the format.    *)
(***************************************************************************)
Signed8(b) == IF b >= 128 THEN b - 256 ELSE b

Signed32(bs) == bs[1] + 256 * bs[2] + 65536 * bs[3] + 16777216 * Signed8(bs[4])

Signed16(bs) ==
    IF bs[1] + 256 * bs[2] >= 32768 THEN (bs[1] + 256 * bs[2]) - 65536
    ELSE bs[1] + 256 * bs[2]

UnpackByte(r) ==
    IF r.tag # "ok" THEN r
    ELSE IF Len(r.val) # 1 THEN Raise("struct.error", r.s)
    ELSE Ok(Signed8(r.val[1]), r.s)

ReadByte(s) == UnpackByte(Recv(s, 1))

UnpackInt(r) ==
    IF r.tag # "ok" THEN r
    ELSE IF Len(r.val) # 4 THEN Raise("struct.error", r.s)
    ELSE Ok(Signed32(r.val), r.s)

ReadInt(s) == UnpackInt(Recv(s, 4))

UnpackString(r, len) ==
    IF r.tag # "ok" THEN r
    ELSE IF Len(r.val) # len THEN Raise("struct.error", r.s)
    ELSE Ok(Bytes(r.val), r.s)

ReadStringBody(len) ==
    IF len.tag # "ok" THEN len ELSE UnpackString(Recv(len.s, len.val), len.val)

ReadString(s) == ReadStringBody(ReadByte(s))

(***************************************************************************)
(* The record model: the dictionaries the create* helpers build.           *)
(***************************************************************************)
TcpSource == 0

NetMQSource == 1

RemoteExporter == 2

RemoteClockExporter == 3

EndpointTags == {TcpSource, NetMQSource, RemoteExporter, RemoteClockExporter}

TransportKinds == {0, 1, 2}

createStream(name, type) == [name |-> name, type |-> type]

createTcpEndpoint(host, port, streams) ==
    [endpoint |-> TcpSource, host |-> host, port |-> port, streams |-> streams]

createNetMQEndpoint(address, streams) ==
    [endpoint |-> NetMQSource, address |-> address, streams |-> streams]

createRemoteExporterEndpoint(host, port, transport, streams) ==
    [endpoint |-> RemoteExporter, host |-> host, port |-> port,
     transport |-> transport, streams |-> streams]

createRemoteClockExporterEndpoint(host, port) ==
    [endpoint |-> RemoteClockExporter, host |-> host, port |-> port,
     streams |-> <<>>]

createProcess(name, endpoints, version) ==
    [name |-> name, endpoints |-> endpoints, version |-> version]

(***************************************************************************)
(* Decoding.  Every reader returns Ok(value, rest), Raise(error, rest) or  *)
(* Block: the recv() it stands at has nothing to return yet.  A reader of  *)
(* several fields carries the fields read so far as a tuple: And*(a) reads *)
(* the next field behind the result a and appends it, and passes on a      *)
(* result that is not Ok, as an exception or a blocked recv() ends the     *)
(* Python method at that statement.                                        *)
(***************************************************************************)
Also(vals, r) == IF r.tag # "ok" THEN r ELSE Ok(Append(vals, r.val), r.s)

AndString(a) == IF a.tag # "ok" THEN a ELSE Also(a.val, ReadString(a.s))

AndInt(a) == IF a.tag # "ok" THEN a ELSE Also(a.val, ReadInt(a.s))

RECURSIVE ReadStreamList(_, _)
MakeStream(a, n) ==
    IF a.tag # "ok" THEN a
    ELSE ReadStreamList(Ok(Append(a.val[1], createStream(a.val[2], a.val[3])), a.s),
                        n - 1)

ReadStreamList(streams, n) ==
    IF streams.tag # "ok" \/ n <= 0 THEN streams
    ELSE MakeStream(AndString(AndString(Ok(<<streams.val>>, streams.s))), n)

ReadStreamsOf(count) ==
    IF count.tag # "ok" THEN count ELSE ReadStreamList(Ok(<<>>, count.s), count.val)

ReadStreams(s) == ReadStreamsOf(ReadInt(s))

AndStreams(a) == IF a.tag # "ok" THEN a ELSE Also(a.val, ReadStreams(a.s))

TransportKindOf(vals, r) ==
    IF r.tag # "ok" THEN r
    ELSE IF r.val \notin TransportKinds THEN Raise("ValueError", r.s)
    ELSE Ok(Append(vals, r.val), r.s)

AndTransport(a) == IF a.tag # "ok" THEN a ELSE TransportKindOf(a.val, ReadInt(a.s))

MakeTcpSource(a) ==
    IF a.tag # "ok" THEN a
    ELSE Ok(createTcpEndpoint(a.val[1], a.val[2], a.val[3]), a.s)

MakeNetMQSource(a) ==
    IF a.tag # "ok" THEN a ELSE Ok(createNetMQEndpoint(a.val[1], a.val[2]), a.s)

MakeRemoteExporter(a) ==
    IF a.tag # "ok" THEN a
    ELSE Ok(createRemoteExporterEndpoint(a.val[1], a.val[2], a.val[3], a.val[4]), a.s)

MakeRemoteClockExporter(a) ==
    IF a.tag # "ok" THEN a
    ELSE Ok(createRemoteClockExporterEndpoint(a.val[1], a.val[2]), a.s)

ReadEndpointOf(endpoint) ==
    IF endpoint.tag # "ok" THEN endpoint
    ELSE IF endpoint.val \notin EndpointTags THEN Raise("ValueError", endpoint.s)
    ELSE IF endpoint.val = TcpSource
    THEN MakeTcpSource(AndStreams(AndInt(AndString(Ok(<<>>, endpoint.s)))))
    ELSE IF endpoint.val = NetMQSource
    THEN MakeNetMQSource(AndStreams(AndString(Ok(<<>>, endpoint.s))))
    ELSE IF endpoint.val = RemoteExporter
    THEN MakeRemoteExporter(
             AndStreams(AndTransport(AndInt(AndString(Ok(<<>>, endpoint.s))))))
    ELSE MakeRemoteClockExporter(AndInt(AndInt(AndString(Ok(<<>>, endpoint.s)))))

ReadEndpoint(s) == ReadEndpointOf(ReadByte(s))

RECURSIVE ReadEndpointList(_, _)
AppendEndpoint(endpoints, e, n) ==
    IF e.tag # "ok" THEN e
    ELSE ReadEndpointList(Ok(Append(endpoints, e.val), e.s), n - 1)

ReadEndpointList(endpoints, n) ==
    IF endpoints.tag # "ok" \/ n <= 0 THEN endpoints
    ELSE AppendEndpoint(endpoints.val, ReadEndpoint(endpoints.s), n)

AndEndpoints(a) ==
    IF a.tag # "ok" THEN a
    ELSE Also(SubSeq(a.val, 1, 2), ReadEndpointList(Ok(<<>>, a.s), a.val[3]))

MakeProcess(a) ==
    IF a.tag # "ok" THEN a ELSE Ok(createProcess(a.val[1], a.val[3], a.val[2]), a.s)

ReadProcess(s) == MakeProcess(AndEndpoints(AndInt(AndString(AndString(Ok(<<>>, s))))))

(***************************************************************************)
(* Encoding.  A writer w is the socket as send() sees it: its state, the   *)
(* bytes written so far, the socket.send calls that wrote them (each of    *)
(* __sendByte, __sendInt, __sendString makes one) and the exception that   *)
(* ended the writing, if any.                                              *)
(***************************************************************************)
SendRaw(w, bs) ==
    IF w.err # "none" THEN w
    ELSE IF w.state # "connected" THEN [w EXCEPT !.err = "OSError"]
    ELSE [w EXCEPT !.out = @ \o bs, !.sends = Append(@, bs)]

SendByte(w, b) ==
    IF w.err # "none" THEN w
    ELSE IF b < -128 \/ b > 127 THEN [w EXCEPT !.err = "struct.error"]
    ELSE SendRaw(w, <<b % 256>>)

Le32(c) ==
    LET b1 == c % 256
        c1 == (c - b1) \div 256
        b2 == c1 % 256
        c2 == (c1 - b2) \div 256
        b3 == c2 % 256
        c3 == (c2 - b3) \div 256
    IN  <<b1, b2, b3, c3 % 256>>

MinInt32 == -2147483647 - 1

MaxInt32 == 2147483647

SendInt(w, c) ==
    IF w.err # "none" THEN w
    ELSE IF c < MinInt32 \/ c > MaxInt32 THEN [w EXCEPT !.err = "struct.error"]
    ELSE SendRaw(w, Le32(c))

Utf8Of(cp) ==
    IF cp < 128 THEN <<cp>>
    ELSE IF cp < 2048 THEN <<192 + (cp \div 64), 128 + (cp % 64)>>
    ELSE <<224 + (cp \div 4096), 128 + ((cp \div 64) % 64), 128 + (cp % 64)>>

(* The encodings of the code points, concatenated (by halves, which keeps  *)
(* the evaluation shallow for long strings).                               *)
RECURSIVE Utf8(_)
Utf8(cps) ==
    IF cps = <<>> THEN <<>>
    ELSE IF Len(cps) = 1 THEN Utf8Of(cps[1])
    ELSE Utf8(SubSeq(cps, 1, Len(cps) \div 2))
             \o Utf8(SubSeq(cps, (Len(cps) \div 2) + 1, Len(cps)))

(* A faulty variant of SendString: a string too long for the length byte   *)
(* is cut to the longest that fits.                                        *)
SendStringTruncated(w, str) ==
    IF w.err # "none" THEN w
    ELSE LET e == Utf8(str[2])
         IN  IF Len(e) > 127 THEN SendRaw(w, <<127>> \o SubSeq(e, 1, 127))
             ELSE SendRaw(w, <<Len(e)>> \o e)

SendString(w, str) ==
    IF w.err # "none" THEN w
    ELSE LET e == Utf8(str[2])
         IN  IF Len(e) > 127 THEN [w EXCEPT !.err = "struct.error"]
             ELSE SendRaw(w, <<Len(e)>> \o e)

RECURSIVE SendStreams(_, _)
SendStreams(w, streams) ==
    IF streams = <<>> THEN w
    ELSE SendStreams(SendString(SendString(w, Head(streams).name), Head(streams).type),
                     Tail(streams))

SendEndpointFields(w, e) ==
    IF e.endpoint = TcpSource THEN SendInt(SendString(w, e.host), e.port)
    ELSE IF e.endpoint = NetMQSource THEN SendString(w, e.address)
    ELSE IF e.endpoint = RemoteExporter
    THEN SendInt(SendInt(SendString(w, e.host), e.port), e.transport)
    ELSE IF e.endpoint = RemoteClockExporter
    THEN SendInt(SendString(w, e.host), e.port)
    ELSE IF w.err # "none" THEN w
    ELSE [w EXCEPT !.err = "Exception"]

(* A faulty variant of SendEndpoint: a RemoteClockExporter, which has no   *)
(* streams, is written without a stream count.                             *)
SendEndpointBare(w, e) ==
    IF e.endpoint = RemoteClockExporter
    THEN SendEndpointFields(SendByte(w, e.endpoint), e)
    ELSE SendStreams(SendInt(SendEndpointFields(SendByte(w, e.endpoint), e),
                             Len(e.streams)),
                     e.streams)

SendEndpoint(w, e) ==
    SendStreams(SendInt(SendEndpointFields(SendByte(w, e.endpoint), e), Len(e.streams)),
                e.streams)

RECURSIVE SendEndpoints(_, _)
SendEndpoints(w, es) ==
    IF es = <<>> THEN w
    ELSE SendEndpoints(SendEndpoint(w, Head(es)), Tail(es))

SendProtocolVersion(w, v) ==
    IF w.err # "none" THEN w
    ELSE SendRaw(w, <<v % 256, (v \div 256) % 256>>)

addProcess(w, process) ==
    SendEndpoints(
        SendInt(SendString(SendString(SendByte(w, 1), process.name), process.version),
                Len(process.endpoints)),
        process.endpoints)

removeProcess(w, process) == SendString(SendByte(w, 2), process.name)

stop(w) == SendByte(w, 0)

(***************************************************************************)
(* Bounds of the model and the inputs drawn within them.                   *)
(***************************************************************************)
MaxFrames == 2

MaxSplits == 1

MaxCalls == 1

MaxLateCalls == 1

PROTOCOL_VERSION == 2

Clients == {"A", "B"}

Threads == {"caller", "listener"}

(***************************************************************************)
(* The peer.  The rendezvous server is not part of the client: it is       *)
(* modelled by the bytes it may put on the connection, laid out as the     *)
(* wire format prescribes, whole or cut into two segments.                 *)
(***************************************************************************)
WireString(b) == <<Len(b[2])>> \o b[2]

RECURSIVE WireStreams(_)
WireStreams(streams) ==
    IF streams = <<>> THEN <<>>
    ELSE WireString(Head(streams).name) \o WireString(Head(streams).type)
         \o WireStreams(Tail(streams))

WireEndpoint(e) ==
    <<e.endpoint>>
    \o (IF e.endpoint = TcpSource THEN WireString(e.host) \o Le32(e.port)
        ELSE IF e.endpoint = NetMQSource THEN WireString(e.address)
        ELSE IF e.endpoint = RemoteExporter
        THEN WireString(e.host) \o Le32(e.port) \o Le32(e.transport)
        ELSE IF e.endpoint = RemoteClockExporter
        THEN WireString(e.host) \o Le32(e.port)
        ELSE <<>>)
    \o (IF e.endpoint \in EndpointTags
        THEN Le32(Len(e.streams)) \o WireStreams(e.streams)
        ELSE <<>>)

RECURSIVE WireEndpoints(_)
WireEndpoints(es) ==
    IF es = <<>> THEN <<>> ELSE WireEndpoint(Head(es)) \o WireEndpoints(Tail(es))

WireProcess(p) ==
    WireString(p.name) \o WireString(p.version) \o Le32(Len(p.endpoints))
    \o WireEndpoints(p.endpoints)

FrameBytes(f) ==
    IF f.kind = "add" THEN <<1>> \o WireProcess(f.arg)
    ELSE IF f.kind = "remove" THEN <<2>> \o WireString(f.arg)
    ELSE IF f.kind = "disconnect" THEN <<0>>
    ELSE <<f.arg>>

NameA == Bytes(<<97>>)

NameB == Bytes(<<98>>)

HostH == Bytes(<<104>>)

StreamRgb == createStream(Bytes(<<114>>), Bytes(<<105>>))

ProcA1 == createProcess(NameA, <<>>, Bytes(<<49>>))

ProcA2 ==
    createProcess(NameA, <<createTcpEndpoint(HostH, 5000, <<StreamRgb>>)>>,
                  Bytes(<<50>>))

ProcB ==
    createProcess(NameB,
                  <<createRemoteExporterEndpoint(HostH, 1, 1, <<>>),
                    createRemoteClockExporterEndpoint(HostH, 2),
                    createNetMQEndpoint(Bytes(<<113, 113>>), <<>>)>>,
                  Bytes(<<>>))

ProcBadEndpoint ==
    createProcess(NameB, <<[endpoint |-> 9, streams |-> <<>>]>>, Bytes(<<49>>))

ProcBadTransport ==
    createProcess(NameB, <<createRemoteExporterEndpoint(HostH, 1, 5, <<>>)>>,
                  Bytes(<<49>>))

Frame(kind, arg) == [kind |-> kind, arg |-> arg]

GoodFrames ==
    {Frame("add", ProcA1), Frame("add", ProcA2), Frame("add", ProcB),
     Frame("remove", NameA), Frame("remove", NameB), Frame("disconnect", <<>>)}

BadFrames ==
    {Frame("other", 7), Frame("add", ProcBadEndpoint), Frame("add", ProcBadTransport)}

ServerFrames == GoodFrames \cup BadFrames

ServerVersions == {PROTOCOL_VERSION, 3, 258}

ServerCounts == {-1, 0, 1, 2}

ClientAddress == <<1, 120>>

SplitPoints(bs) == {k \in {0, 1, Len(bs) - 1} : k < Len(bs)}

Segments(bs, k) ==
    IF k = 0 THEN <<bs>> ELSE <<SubSeq(bs, 1, k), SubSeq(bs, k + 1, Len(bs))>>

(***************************************************************************)
(* What the caller may advertise: str-typed records, as the create*        *)
(* helpers are called with.                                                *)
(***************************************************************************)
OutProcA == createProcess(Str(<<97>>), <<>>, Str(<<49>>))

OutProcB ==
    createProcess(Str(<<98>>),
                  <<createTcpEndpoint(Str(<<104>>), 5000,
                                      <<createStream(Str(<<114>>), Str(<<105>>))>>)>>,
                  Str(<<49>>))

OutProcs == {OutProcA, OutProcB}

(* Processes for the codec, built with the create* helpers from str        *)
(* arguments: every endpoint variant, stream lists of 0, 1 and 2 streams,  *)
(* empty and non-ASCII strings, negative and large numbers, and strings    *)
(* whose encoding is 127 and 128 bytes long.                               *)
MaxStringBytes == 127

Repeat(cp, n) == [i \in 1 .. n |-> cp]

StrX(n) == Str(Repeat(120, n))

OutStreams(n) ==
    [i \in 1 .. n |-> createStream(Str(<<114, 48 + i>>), Str(<<105, 110, 116>>))]

OutAllKinds ==
    createProcess(Str(<<112, 233>>),
                  <<createTcpEndpoint(Str(<<104>>), 5000, OutStreams(2)),
                    createNetMQEndpoint(Str(<<116, 99, 112>>), OutStreams(0)),
                    createRemoteExporterEndpoint(Str(<<>>), -1, 2, OutStreams(1)),
                    createRemoteClockExporterEndpoint(Str(<<104, 8364>>), 70000)>>,
                  Str(<<49, 46, 48>>))

OutClock ==
    createProcess(Str(<<99>>), <<createRemoteClockExporterEndpoint(Str(<<104>>), 11511)>>,
                  Str(<<>>))

OutLongest == createProcess(StrX(MaxStringBytes), <<>>, Str(<<49>>))

OutLongestStream ==
    createProcess(Str(<<97>>),
                  <<createNetMQEndpoint(Str(<<113>>),
                                        <<createStream(StrX(MaxStringBytes), Str(<<>>))>>)>>,
                  Str(<<49>>))

OutTooLong == createProcess(StrX(MaxStringBytes + 1), <<>>, Str(<<49>>))

OutTooLongVersion == createProcess(Str(<<97>>), <<>>, StrX(MaxStringBytes + 1))

OutTooLongHost ==
    createProcess(Str(<<97>>),
                  <<createTcpEndpoint(StrX(MaxStringBytes + 1), 5000, OutStreams(1))>>,
                  Str(<<49>>))

OutTooLongStream ==
    createProcess(Str(<<97>>),
                  <<createTcpEndpoint(Str(<<104>>), 5000, OutStreams(1)),
                    createNetMQEndpoint(Str(<<113>>),
                                        <<createStream(Str(<<114>>),
                                                       Str(Repeat(233, 64)))>>)>>,
                  Str(<<49>>))

CodecProcs ==
    {OutProcA, OutProcB, OutAllKinds, OutClock, OutLongest, OutLongestStream,
     OutTooLong, OutTooLongVersion, OutTooLongHost, OutTooLongStream}

(***************************************************************************)
(* State.                                                                  *)
(*   rendezvous        the dictionary of line 186: an attribute of the     *)
(*                     class, which no method rebinds on an instance       *)
(*   sock, inbuf, eof  each client's socket: its state, the segments that  *)
(*                     arrived, whether the peer closed behind them        *)
(*   sent              the bytes each client has written                   *)
(*   caller            where the thread that owns the client stands        *)
(*   listener          the thread of line 106: none, running, done         *)
(*   todo              iterations left in the snapshot loop of line 104    *)
(*   pos, cur          per thread, its place inside __readProcessUpdate    *)
(*                     and the update it has decoded                       *)
(*   onProcessAdded, onProcessRemoved   TRUE for a callable, FALSE for None*)
(*   error             per thread, the exception that ended it             *)
(*   last              the outcome of the latest outbound call             *)
(*   writing           per thread, the outbound method it is inside and    *)
(*                     the socket.send calls that method has still to make *)
(*   srv, served       the peer: its stage and the frames it has sent      *)
(*   cbLog, hist, log  history: the callback invocations, how far each     *)
(*                     client has come through the bytes and frames sent   *)
(*                     to it, and the order of the steps of its start()    *)
(***************************************************************************)
VARIABLES rendezvous, sock, inbuf, eof, sent, caller, listener, todo, pos, cur,
          onProcessAdded, onProcessRemoved, error, last, srv, served, cbLog, hist, log,
          writing

vars == <<rendezvous, sock, inbuf, eof, sent, caller, listener, todo, pos, cur,
          onProcessAdded, onProcessRemoved, error, last, srv, served, cbLog, hist,
          log, writing>>

threadVars == <<caller, listener, todo, pos, cur, error, writing>>

peerVars == <<srv, served>>

callbackVars == <<onProcessAdded, onProcessRemoved>>

EmptyDict == [k \in {} |-> <<>>]

NoUpdate == Frame("none", <<>>)

NoCall == [op |-> "none", sends |-> <<>>, err |-> "none"]

NoHist == [read |-> 0, decoded |-> 0, applied |-> 0, returned |-> 0, nsync |-> 0,
           synced |-> EmptyDict, calls |-> 0]

Range(seq) == {seq[i] : i \in DOMAIN seq}

RECURSIVE BufLen(_)
BufLen(buf) == IF buf = <<>> THEN 0 ELSE Len(Head(buf)) + BufLen(Tail(buf))

(* The bytes a reader took from client c's socket to arrive at stream s. *)
Taken(c, s) == BufLen(inbuf[c]) - BufLen(s.buf)

Conn(c) == [buf |-> inbuf[c], eof |-> eof[c], state |-> sock[c]]

Writer(c) == [state |-> sock[c], out |-> sent[c], sends |-> <<>>, err |-> "none"]

Table(c) == rendezvous

(* A connected socket before an outbound method writes to it. *)
Connected == [state |-> "connected", out |-> <<>>, sends |-> <<>>, err |-> "none"]

(***************************************************************************)
(* Initial states.  Init: client A constructed (line 11-13), B never.      *)
(* InitEngine: client A at line 102 of start().  InitShared: A and B both  *)
(* at line 102, each on its own connection.                                *)
(***************************************************************************)
Handshaken == <<"open", "version_sent", "version_read">>

InitWith(active, place, socket, out, stage, steps) ==
    /\ rendezvous = EmptyDict
    /\ sock = [c \in Clients |-> IF c \in active THEN socket ELSE "new"]
    /\ inbuf = [c \in Clients |-> <<>>]
    /\ eof = [c \in Clients |-> FALSE]
    /\ sent = [c \in Clients |-> IF c \in active THEN out ELSE <<>>]
    /\ caller = [c \in Clients |-> IF c \in active THEN place ELSE "absent"]
    /\ listener = [c \in Clients |-> "none"]
    /\ todo = [c \in Clients |-> 0]
    /\ pos = [c \in Clients |-> [t \in Threads |-> "out"]]
    /\ cur = [c \in Clients |-> [t \in Threads |-> NoUpdate]]
    /\ error = [c \in Clients |-> [t \in Threads |-> "none"]]
    /\ last = [c \in Clients |-> <<"none", "none">>]
    /\ srv = [c \in Clients |->
                 [stage |-> IF c \in active THEN stage ELSE "absent", splits |-> 0,
                  version |-> IF stage = "count" THEN PROTOCOL_VERSION ELSE 0,
                  count |-> 0]]
    /\ served = [c \in Clients |-> <<>>]
    /\ cbLog = [c \in Clients |-> <<>>]
    /\ hist = [c \in Clients |-> NoHist]
    /\ log = [c \in Clients |-> IF c \in active THEN steps ELSE <<>>]
    /\ writing = [c \in Clients |-> [t \in Threads |-> NoCall]]

Init ==
    /\ InitWith({"A"}, "new", "new", <<>>, "listen", <<>>)
    /\ onProcessAdded = [c \in Clients |-> FALSE]
    /\ onProcessRemoved = [c \in Clients |-> FALSE]

InitEngine ==
    /\ InitWith({"A"}, "count", "connected", <<2, 0>>, "count", Handshaken)
    /\ \E a, r \in BOOLEAN :
          /\ onProcessAdded = [c \in Clients |-> c = "A" /\ a]
          /\ onProcessRemoved = [c \in Clients |-> c = "A" /\ r]

InitShared ==
    /\ InitWith(Clients, "count", "connected", <<2, 0>>, "count", Handshaken)
    /\ onProcessAdded = [c \in Clients |-> FALSE]
    /\ onProcessRemoved = [c \in Clients |-> FALSE]

(***************************************************************************)
(* The peer's steps.                                                       *)
(***************************************************************************)
Deliver(c, bs, k, stage) ==
    /\ k \in SplitPoints(bs)
    /\ k # 0 => srv[c].splits < MaxSplits
    /\ inbuf' = [inbuf EXCEPT ![c] = @ \o Segments(bs, k)]
    /\ srv' = [srv EXCEPT ![c].stage = stage,
                          ![c].splits = IF k = 0 THEN @ ELSE @ + 1,
                          ![c].version = IF stage = "address" THEN Signed16(bs) ELSE @,
                          ![c].count = IF srv[c].stage = "count" THEN Signed32(bs)
                                       ELSE @]

ServerVersion(c, v, k) ==
    /\ srv[c].stage = "listen"
    /\ sock[c] = "connected"
    /\ Deliver(c, <<v % 256, v \div 256>>, k, "address")
    /\ UNCHANGED <<rendezvous, sock, eof, sent, threadVars, callbackVars, last,
                   served, cbLog, hist, log>>

ServerAddress(c) ==
    /\ srv[c].stage = "address"
    /\ Deliver(c, ClientAddress, 0, "count")
    /\ UNCHANGED <<rendezvous, sock, eof, sent, threadVars, callbackVars, last,
                   served, cbLog, hist, log>>

ServerCount(c, n, k) ==
    /\ srv[c].stage = "count"
    /\ Deliver(c, Le32(n), k, "frames")
    /\ UNCHANGED <<rendezvous, sock, eof, sent, threadVars, callbackVars, last,
                   served, cbLog, hist, log>>

(* The server sends a frame once the client has taken the message before   *)
(* it off the socket: a recv never returns bytes of two messages, so a     *)
(* frame queued behind an unread one changes nothing the client reads.     *)
ServerFrame(c, f, k) ==
    /\ srv[c].stage = "frames"
    /\ Len(served[c]) < MaxFrames
    /\ inbuf[c] = <<>>
    /\ Deliver(c, FrameBytes(f), k, "frames")
    /\ served' = [served EXCEPT ![c] = Append(@, f)]
    /\ UNCHANGED <<rendezvous, sock, eof, sent, threadVars, callbackVars, last,
                   cbLog, hist, log>>

ServerClose(c) ==
    /\ srv[c].stage \in {"listen", "address", "count", "frames"}
    /\ sock[c] # "new"
    /\ eof' = [eof EXCEPT ![c] = TRUE]
    /\ srv' = [srv EXCEPT ![c].stage = "closed"]
    /\ UNCHANGED <<rendezvous, sock, inbuf, sent, threadVars, callbackVars, last,
                   served, cbLog, hist, log>>

(* The server's connection breaks while it is sending frame f: the first k *)
(* bytes of the frame arrive, then the end of the stream.                  *)
ServerCut(c, f, k) ==
    /\ srv[c].stage = "frames"
    /\ Len(served[c]) < MaxFrames
    /\ inbuf[c] = <<>>
    /\ k \in 1 .. Len(FrameBytes(f)) - 1
    /\ inbuf' = [inbuf EXCEPT ![c] = <<SubSeq(FrameBytes(f), 1, k)>>]
    /\ eof' = [eof EXCEPT ![c] = TRUE]
    /\ srv' = [srv EXCEPT ![c].stage = "closed"]
    /\ UNCHANGED <<rendezvous, sock, sent, threadVars, callbackVars, last,
                   served, cbLog, hist, log>>

(***************************************************************************)
(* start(), lines 91-107.                                                  *)
(***************************************************************************)
ReadProtocolVersion(s) ==
    LET r == Recv(s, 2)
    IN  IF r.tag # "ok" THEN r
        ELSE IF Len(r.val) # 2 THEN Raise("struct.error", r.s)
        ELSE IF Signed16(r.val) # PROTOCOL_VERSION THEN Raise("ProtocolMismatch", r.s)
        ELSE Ok(Signed16(r.val), r.s)

(* Lines 92-95: connect, store the callbacks, send the version.  A refused *)
(* connection raises out of line 92.                                       *)
StartConnect(c, ok, added, removed) ==
    /\ caller[c] = "new"
    /\ IF ok
       THEN /\ sock' = [sock EXCEPT ![c] = "connected"]
            /\ onProcessAdded' = [onProcessAdded EXCEPT ![c] = added]
            /\ onProcessRemoved' = [onProcessRemoved EXCEPT ![c] = removed]
            /\ sent' = [sent EXCEPT ![c] =
                           SendProtocolVersion([Writer(c) EXCEPT !.state = "connected"],
                                               PROTOCOL_VERSION).out]
            /\ caller' = [caller EXCEPT ![c] = "version"]
            /\ error' = error
            /\ log' = [log EXCEPT ![c] = @ \o <<"open", "version_sent">>]
       ELSE /\ caller' = [caller EXCEPT ![c] = "raised"]
            /\ error' = [error EXCEPT ![c]["caller"] = "ConnectionRefusedError"]
            /\ UNCHANGED <<sock, sent, callbackVars, log>>
    /\ UNCHANGED <<rendezvous, inbuf, eof, listener, todo, pos, cur, last, peerVars,
                   cbLog, hist, writing>>

(* Line 96. *)
StartReadVersion(c) ==
    /\ caller[c] = "version"
    /\ LET r == ReadProtocolVersion(Conn(c))
       IN  /\ r.tag # "block"
           /\ inbuf' = [inbuf EXCEPT ![c] = r.s.buf]
           /\ hist' = [hist EXCEPT ![c].read = @ + Taken(c, r.s)]
           /\ IF r.tag = "ok"
              THEN /\ caller' = [caller EXCEPT ![c] = "address"]
                   /\ error' = error
                   /\ log' = [log EXCEPT ![c] = Append(@, "version_read")]
              ELSE /\ caller' = [caller EXCEPT ![c] = "raised"]
                   /\ error' = [error EXCEPT ![c]["caller"] = r.val]
                   /\ log' = log
    /\ UNCHANGED <<rendezvous, sock, eof, sent, listener, todo, pos, cur,
                   callbackVars, last, peerVars, cbLog, writing>>

(* Lines 97-98: one byte is received, then struct.unpack('B') is called    *)
(* without a buffer and raises TypeError, whatever was received.           *)
StartReadAddress(c) ==
    /\ caller[c] = "address"
    /\ LET r == Recv(Conn(c), 1)
       IN  /\ r.tag # "block"
           /\ inbuf' = [inbuf EXCEPT ![c] = r.s.buf]
           /\ caller' = [caller EXCEPT ![c] = "raised"]
           /\ error' = [error EXCEPT ![c]["caller"] =
                           IF r.tag = "ok" THEN "TypeError" ELSE r.val]
           /\ hist' = [hist EXCEPT ![c].read = @ + Taken(c, r.s)]
    /\ UNCHANGED <<rendezvous, sock, eof, sent, listener, todo, pos, cur,
                   callbackVars, last, peerVars, cbLog, log, writing>>

(* A faulty variant of StartReadCount: the listener is started as soon as   *)
(* the count is read, and reads the snapshot frames itself.                *)
StartReadCountThenThread(c) ==
    /\ caller[c] = "count"
    /\ LET r == ReadInt(Conn(c))
       IN  /\ r.tag # "block"
           /\ inbuf' = [inbuf EXCEPT ![c] = r.s.buf]
           /\ hist' = [hist EXCEPT ![c].read = @ + Taken(c, r.s)]
           /\ todo' = todo
           /\ IF r.tag = "ok"
              THEN /\ caller' = [caller EXCEPT ![c] = "idle"]
                   /\ listener' = [listener EXCEPT ![c] = "running"]
                   /\ error' = error
                   /\ log' = [log EXCEPT ![c] = @ \o <<"count_read", "listener_started">>]
              ELSE /\ caller' = [caller EXCEPT ![c] = "raised"]
                   /\ listener' = listener
                   /\ error' = [error EXCEPT ![c]["caller"] = r.val]
                   /\ log' = log
    /\ UNCHANGED <<rendezvous, sock, eof, sent, pos, cur, callbackVars, last, peerVars,
                   cbLog, writing>>

(* A faulty variant of StartReadCount: a failure to read the count is      *)
(* swallowed and start() carries on with an empty snapshot.                *)
StartReadCountLenient(c) ==
    /\ caller[c] = "count"
    /\ LET r == ReadInt(Conn(c))
       IN  /\ r.tag # "block"
           /\ inbuf' = [inbuf EXCEPT ![c] = r.s.buf]
           /\ hist' = [hist EXCEPT ![c].read = @ + Taken(c, r.s)]
           /\ caller' = [caller EXCEPT ![c] = "sync"]
           /\ todo' = [todo EXCEPT ![c] = IF r.tag = "ok" /\ r.val > 0 THEN r.val ELSE 0]
           /\ error' = error
           /\ log' = [log EXCEPT ![c] = Append(@, "count_read")]
    /\ UNCHANGED <<rendezvous, sock, eof, sent, listener, pos, cur, callbackVars,
                   last, peerVars, cbLog, writing>>

(* Lines 102-103. *)
StartReadCount(c) ==
    /\ caller[c] = "count"
    /\ LET r == ReadInt(Conn(c))
       IN  /\ r.tag # "block"
           /\ inbuf' = [inbuf EXCEPT ![c] = r.s.buf]
           /\ hist' = [hist EXCEPT ![c].read = @ + Taken(c, r.s)]
           /\ IF r.tag = "ok"
              THEN /\ caller' = [caller EXCEPT ![c] = "sync"]
                   /\ todo' = [todo EXCEPT ![c] = IF r.val > 0 THEN r.val ELSE 0]
                   /\ error' = error
                   /\ log' = [log EXCEPT ![c] = Append(@, "count_read")]
              ELSE /\ caller' = [caller EXCEPT ![c] = "raised"]
                   /\ todo' = todo
                   /\ error' = [error EXCEPT ![c]["caller"] = r.val]
                   /\ log' = log
    /\ UNCHANGED <<rendezvous, sock, eof, sent, listener, pos, cur, callbackVars,
                   last, peerVars, cbLog, writing>>

(* Lines 106-107, once the loop of line 104 has run out. *)
StartListener(c) ==
    /\ caller[c] = "sync"
    /\ todo[c] = 0
    /\ pos[c]["caller"] = "out"
    /\ listener' = [listener EXCEPT ![c] = "running"]
    /\ caller' = [caller EXCEPT ![c] = "idle"]
    /\ hist' = [hist EXCEPT ![c].nsync = hist[c].returned, ![c].synced = Table(c)]
    /\ log' = [log EXCEPT ![c] = Append(@, "listener_started")]
    /\ UNCHANGED <<rendezvous, sock, inbuf, eof, sent, todo, pos, cur, callbackVars,
                   error, last, peerVars, cbLog, writing>>

(***************************************************************************)
(* __readProcessUpdate, lines 188-205, run by thread t of client c: by the *)
(* caller from line 105, by the listener from line 209.  Three steps: the  *)
(* frame is read and decoded, the table is changed, the callback is run.   *)
(***************************************************************************)
AtCall(c, t) ==
    /\ pos[c][t] = "out"
    /\ IF t = "caller" THEN caller[c] = "sync" /\ todo[c] > 0
       ELSE listener[c] = "running"

(* A faulty variant of Leave: the listener's loop carries on after an       *)
(* exception instead of ending.                                            *)
LeaveResume(c, t, how) ==
    /\ pos' = [pos EXCEPT ![c][t] = "out"]
    /\ cur' = [cur EXCEPT ![c][t] = NoUpdate]
    /\ IF t = "caller"
       THEN /\ listener' = listener
            /\ IF how \in {"True", "False"}
               THEN /\ caller' = caller
                    /\ todo' = [todo EXCEPT ![c] = @ - 1]
                    /\ error' = error
               ELSE /\ caller' = [caller EXCEPT ![c] = "raised"]
                    /\ todo' = todo
                    /\ error' = [error EXCEPT ![c][t] = how]
       ELSE /\ caller' = caller
            /\ todo' = todo
            /\ listener' = [listener EXCEPT ![c] = IF how = "False" THEN "done"
                                                   ELSE "running"]
            /\ error' = IF how \in {"True", "False"} THEN error
                        ELSE [error EXCEPT ![c][t] = how]

(* A faulty variant of Leave: the listener's loop ignores the result of the *)
(* call, as line 105 does, and carries on after a False.                   *)
LeaveIgnoringResult(c, t, how) ==
    /\ pos' = [pos EXCEPT ![c][t] = "out"]
    /\ cur' = [cur EXCEPT ![c][t] = NoUpdate]
    /\ IF t = "caller"
       THEN /\ listener' = listener
            /\ IF how \in {"True", "False"}
               THEN /\ caller' = caller
                    /\ todo' = [todo EXCEPT ![c] = @ - 1]
                    /\ error' = error
               ELSE /\ caller' = [caller EXCEPT ![c] = "raised"]
                    /\ todo' = todo
                    /\ error' = [error EXCEPT ![c][t] = how]
       ELSE /\ caller' = caller
            /\ todo' = todo
            /\ listener' = [listener EXCEPT ![c] = IF how \in {"True", "False"}
                                                   THEN "running" ELSE "done"]
            /\ error' = IF how \in {"True", "False"} THEN error
                        ELSE [error EXCEPT ![c][t] = how]

(* How a call ends for its thread: "True" and "False" are its results, any *)
(* other value the exception it raises.  Line 105 ignores the result; the  *)
(* loop of line 209 ends on False; line 211 swallows every exception.      *)
Leave(c, t, how) ==
    /\ pos' = [pos EXCEPT ![c][t] = "out"]
    /\ cur' = [cur EXCEPT ![c][t] = NoUpdate]
    /\ IF t = "caller"
       THEN /\ listener' = listener
            /\ IF how \in {"True", "False"}
               THEN /\ caller' = caller
                    /\ todo' = [todo EXCEPT ![c] = @ - 1]
                    /\ error' = error
               ELSE /\ caller' = [caller EXCEPT ![c] = "raised"]
                    /\ todo' = todo
                    /\ error' = [error EXCEPT ![c][t] = how]
       ELSE /\ caller' = caller
            /\ todo' = todo
            /\ listener' = [listener EXCEPT ![c] = IF how = "True" THEN "running"
                                                   ELSE "done"]
            /\ error' = IF how \in {"True", "False"} THEN error
                        ELSE [error EXCEPT ![c][t] = how]

Stay(c, t, place, update) ==
    /\ pos' = [pos EXCEPT ![c][t] = place]
    /\ cur' = [cur EXCEPT ![c][t] = update]
    /\ UNCHANGED <<caller, listener, todo, error>>

MakeUpdate(kind, r) == IF r.tag # "ok" THEN r ELSE Ok(Frame(kind, r.val), r.s)

DecodeUpdateOf(update) ==
    IF update.tag # "ok" THEN update
    ELSE IF update.val = 0 THEN Ok(Frame("disconnect", <<>>), update.s)
    ELSE IF update.val = 1 THEN MakeUpdate("add", ReadProcess(update.s))
    ELSE IF update.val = 2 THEN MakeUpdate("remove", ReadString(update.s))
    ELSE Raise("Exception", update.s)

DecodeUpdate(s) == DecodeUpdateOf(ReadByte(s))

(* Lines 189-193 and 199. *)
(* A faulty variant of UpdateRead: when the decoding of an add-process     *)
(* frame fails, what was decoded so far is put in the table.               *)
UpdateReadPartial(c, t) ==
    /\ AtCall(c, t)
    /\ LET r == DecodeUpdate(Conn(c))
       IN  /\ r.tag # "block"
           /\ inbuf' = [inbuf EXCEPT ![c] = r.s.buf]
           /\ sock' = [sock EXCEPT ![c] = r.s.state]
           /\ IF r.tag = "raise"
              THEN /\ Leave(c, t, r.val)
                   /\ hist' = [hist EXCEPT ![c].read = @ + Taken(c, r.s)]
              ELSE IF r.val.kind = "disconnect"
              THEN /\ Leave(c, t, "False")
                   /\ hist' = [hist EXCEPT ![c].read = @ + Taken(c, r.s),
                                           ![c].decoded = @ + 1, ![c].applied = @ + 1,
                                           ![c].returned = @ + 1]
              ELSE /\ Stay(c, t, "apply", r.val)
                   /\ hist' = [hist EXCEPT ![c].read = @ + Taken(c, r.s),
                                           ![c].decoded = @ + 1]
    /\ log' = [log EXCEPT ![c] = IF t = "listener" /\ "listener_read" \notin Range(@)
                                  THEN Append(@, "listener_read") ELSE @]
    /\ rendezvous' = IF DecodeUpdate(Conn(c)).tag = "raise" /\ Head(inbuf[c])[1] = 1
                     THEN (Bytes(<<>>) :> createProcess(Bytes(<<>>), <<>>, Bytes(<<>>)))
                              @@ Table(c)
                     ELSE rendezvous
    /\ UNCHANGED <<eof, sent, callbackVars, last, peerVars, cbLog, writing>>

UpdateRead(c, t) ==
    /\ AtCall(c, t)
    /\ LET r == DecodeUpdate(Conn(c))
       IN  /\ r.tag # "block"
           /\ inbuf' = [inbuf EXCEPT ![c] = r.s.buf]
           /\ sock' = [sock EXCEPT ![c] = r.s.state]
           /\ IF r.tag = "raise"
              THEN /\ Leave(c, t, r.val)
                   /\ hist' = [hist EXCEPT ![c].read = @ + Taken(c, r.s)]
              ELSE IF r.val.kind = "disconnect"
              THEN /\ Leave(c, t, "False")
                   /\ hist' = [hist EXCEPT ![c].read = @ + Taken(c, r.s),
                                           ![c].decoded = @ + 1, ![c].applied = @ + 1,
                                           ![c].returned = @ + 1]
              ELSE /\ Stay(c, t, "apply", r.val)
                   /\ hist' = [hist EXCEPT ![c].read = @ + Taken(c, r.s),
                                           ![c].decoded = @ + 1]
    /\ log' = [log EXCEPT ![c] = IF t = "listener" /\ "listener_read" \notin Range(@)
                                  THEN Append(@, "listener_read") ELSE @]
    /\ UNCHANGED <<rendezvous, eof, sent, callbackVars, last, peerVars, cbLog, writing>>

(* A faulty variant of DictSet: an existing entry is kept. *)
DictSetDefault(d, key, value) ==
    [k \in DOMAIN d \cup {key} |-> IF k \in DOMAIN d THEN d[k] ELSE value]

DictSet(d, key, value) ==
    [k \in DOMAIN d \cup {key} |-> IF k = key THEN value ELSE d[k]]

DictPop(d, key) == [k \in DOMAIN d \ {key} |-> d[k]]

(* A faulty variant of UpdateApply: the callback is reached with the table *)
(* not yet updated.                                                        *)
UpdateApplyDeferred(c, t) ==
    /\ pos[c][t] = "apply"
    /\ IF cur[c][t].kind = "add"
       THEN /\ rendezvous' = rendezvous
            /\ IF onProcessAdded[c]
               THEN Stay(c, t, "notify", cur[c][t])
                    /\ hist' = [hist EXCEPT ![c].applied = @ + 1]
               ELSE Leave(c, t, "True")
                    /\ hist' = [hist EXCEPT ![c].applied = @ + 1, ![c].returned = @ + 1]
       ELSE IF cur[c][t].arg \notin DOMAIN Table(c)
       THEN /\ rendezvous' = rendezvous
            /\ Leave(c, t, "KeyError")
            /\ hist' = hist
       ELSE /\ rendezvous' = rendezvous
            /\ IF onProcessRemoved[c]
               THEN Stay(c, t, "notify", Frame("remove", Table(c)[cur[c][t].arg]))
                    /\ hist' = [hist EXCEPT ![c].applied = @ + 1]
               ELSE Leave(c, t, "True")
                    /\ hist' = [hist EXCEPT ![c].applied = @ + 1, ![c].returned = @ + 1]
    /\ log' = [log EXCEPT ![c] = IF t = "caller" /\ rendezvous' # rendezvous
                                  THEN Append(@, "snapshot_update") ELSE @]
    /\ UNCHANGED <<sock, inbuf, eof, sent, callbackVars, last, peerVars, cbLog,
                   writing>>

(* A faulty variant of UpdateApply: removing an unknown name is ignored,    *)
(* as pop(name, None) would.                                               *)
UpdateApplyTolerant(c, t) ==
    /\ pos[c][t] = "apply"
    /\ IF cur[c][t].kind = "add"
       THEN /\ rendezvous' = DictSet(Table(c), cur[c][t].arg.name, cur[c][t].arg)
            /\ IF onProcessAdded[c]
               THEN Stay(c, t, "notify", cur[c][t])
                    /\ hist' = [hist EXCEPT ![c].applied = @ + 1]
               ELSE Leave(c, t, "True")
                    /\ hist' = [hist EXCEPT ![c].applied = @ + 1, ![c].returned = @ + 1]
       ELSE IF cur[c][t].arg \notin DOMAIN Table(c)
       THEN /\ rendezvous' = rendezvous
            /\ Leave(c, t, "True")
            /\ hist' = [hist EXCEPT ![c].applied = @ + 1, ![c].returned = @ + 1]
       ELSE /\ rendezvous' = DictPop(Table(c), cur[c][t].arg)
            /\ IF onProcessRemoved[c]
               THEN Stay(c, t, "notify", Frame("remove", Table(c)[cur[c][t].arg]))
                    /\ hist' = [hist EXCEPT ![c].applied = @ + 1]
               ELSE Leave(c, t, "True")
                    /\ hist' = [hist EXCEPT ![c].applied = @ + 1, ![c].returned = @ + 1]
    /\ log' = [log EXCEPT ![c] = IF t = "caller" /\ rendezvous' # rendezvous
                                  THEN Append(@, "snapshot_update") ELSE @]
    /\ UNCHANGED <<sock, inbuf, eof, sent, callbackVars, last, peerVars, cbLog,
                   writing>>

(* Lines 194-195 and 200-201. *)
UpdateApply(c, t) ==
    /\ pos[c][t] = "apply"
    /\ IF cur[c][t].kind = "add"
       THEN /\ rendezvous' = DictSet(Table(c), cur[c][t].arg.name, cur[c][t].arg)
            /\ IF onProcessAdded[c]
               THEN Stay(c, t, "notify", cur[c][t])
                    /\ hist' = [hist EXCEPT ![c].applied = @ + 1]
               ELSE Leave(c, t, "True")
                    /\ hist' = [hist EXCEPT ![c].applied = @ + 1, ![c].returned = @ + 1]
       ELSE IF cur[c][t].arg \notin DOMAIN Table(c)
       THEN /\ rendezvous' = rendezvous
            /\ Leave(c, t, "KeyError")
            /\ hist' = hist
       ELSE /\ rendezvous' = DictPop(Table(c), cur[c][t].arg)
            /\ IF onProcessRemoved[c]
               THEN Stay(c, t, "notify", Frame("remove", Table(c)[cur[c][t].arg]))
                    /\ hist' = [hist EXCEPT ![c].applied = @ + 1]
               ELSE Leave(c, t, "True")
                    /\ hist' = [hist EXCEPT ![c].applied = @ + 1, ![c].returned = @ + 1]
    /\ log' = [log EXCEPT ![c] = IF t = "caller" /\ rendezvous' # rendezvous
                                  THEN Append(@, "snapshot_update") ELSE @]
    /\ UNCHANGED <<sock, inbuf, eof, sent, callbackVars, last, peerVars, cbLog,
                   writing>>

(* A faulty variant of UpdateNotify: the callback is invoked twice. *)
UpdateNotifyTwice(c, t, raises) ==
    /\ pos[c][t] = "notify"
    /\ writing[c][t] = NoCall
    /\ cbLog' = [cbLog EXCEPT ![c] =
                    @ \o [i \in 1 .. 2 |->
                             [cb |-> IF cur[c][t].kind = "add" THEN "onProcessAdded"
                                     ELSE "onProcessRemoved",
                              arg |-> cur[c][t].arg, thread |-> t]]]
    /\ IF raises
       THEN Leave(c, t, "CallbackError") /\ hist' = hist
       ELSE Leave(c, t, "True") /\ hist' = [hist EXCEPT ![c].returned = @ + 1]
    /\ UNCHANGED <<rendezvous, sock, inbuf, eof, sent, callbackVars, last, peerVars,
                   log, writing>>

(* Lines 196-197 and 202-203: the callback runs on the thread that is in   *)
(* the call; it returns, or it raises and the exception leaves the call.   *)
UpdateNotify(c, t, raises) ==
    /\ pos[c][t] = "notify"
    /\ writing[c][t] = NoCall
    /\ cbLog' = [cbLog EXCEPT ![c] =
                    Append(@, [cb |-> IF cur[c][t].kind = "add" THEN "onProcessAdded"
                                      ELSE "onProcessRemoved",
                               arg |-> cur[c][t].arg, thread |-> t])]
    /\ IF raises
       THEN Leave(c, t, "CallbackError") /\ hist' = hist
       ELSE Leave(c, t, "True") /\ hist' = [hist EXCEPT ![c].returned = @ + 1]
    /\ UNCHANGED <<rendezvous, sock, inbuf, eof, sent, callbackVars, last, peerVars,
                   log, writing>>

(***************************************************************************)
(* The outbound calls, lines 109-141, made by the caller when it is not    *)
(* inside start().                                                         *)
(***************************************************************************)
Stopped(c) == sock[c] \in {"closed", "held"}

(* The caller makes up to MaxCalls calls, and up to MaxLateCalls more once *)
(* stop() has closed the socket.                                           *)
MayCall(c) ==
    /\ caller[c] \in {"new", "raised", "idle"}
    /\ hist[c].calls < MaxCalls + (IF Stopped(c) THEN MaxLateCalls ELSE 0)

Called(c, op, w) ==
    /\ sent' = [sent EXCEPT ![c] = w.out]
    /\ last' = [last EXCEPT ![c] = <<op, w.err>>]
    /\ hist' = [hist EXCEPT ![c].calls = @ + 1]

(* A faulty variant of AddProcess: the advertised process is also put in   *)
(* the client's own table.                                                 *)
AddProcessLocal(c, process) ==
    /\ MayCall(c)
    /\ Called(c, "addProcess", addProcess(Writer(c), process))
    /\ rendezvous' = DictSet(Table(c), process.name, process)
    /\ UNCHANGED <<sock, inbuf, eof, threadVars, callbackVars, peerVars, cbLog, log>>

AddProcess(c, process) ==
    /\ MayCall(c)
    /\ Called(c, "addProcess", addProcess(Writer(c), process))
    /\ UNCHANGED <<rendezvous, sock, inbuf, eof, threadVars, callbackVars, peerVars,
                   cbLog, log>>

RemoveProcess(c, process) ==
    /\ MayCall(c)
    /\ Called(c, "removeProcess", removeProcess(Writer(c), process))
    /\ UNCHANGED <<rendezvous, sock, inbuf, eof, threadVars, callbackVars, peerVars,
                   cbLog, log>>

(* A faulty variant of Stop: the socket is closed before the tag is sent.  *)
StopCloseFirst(c) ==
    /\ MayCall(c)
    /\ Called(c, "stop", stop([Writer(c) EXCEPT !.state = "closed"]))
    /\ sock' = [sock EXCEPT ![c] = "closed"]
    /\ UNCHANGED <<rendezvous, inbuf, eof, threadVars, callbackVars, peerVars, cbLog,
                   log>>

(* The listener is inside recv(1) of line 19, waiting: it is at line 189   *)
(* and nothing has arrived.                                                *)
InRecv(c) ==
    /\ listener[c] = "running"
    /\ pos[c]["listener"] = "out"
    /\ inbuf[c] = <<>>
    /\ ~eof[c]

(* Lines 110-111: the close is reached only if the send did not raise.     *)
(* close() is called with no shutdown() before it and no lock: a listener   *)
(* waiting in recv() at that moment is either failed by the close or left  *)
(* waiting on the connection, as the platform has it.                      *)
Stop(c) ==
    /\ MayCall(c)
    /\ Called(c, "stop", stop(Writer(c)))
    /\ IF stop(Writer(c)).err # "none" THEN sock' = sock
       ELSE \E state \in (IF InRecv(c) THEN {"closed", "held"} ELSE {"closed"}) :
                sock' = [sock EXCEPT ![c] = state]
    /\ UNCHANGED <<rendezvous, inbuf, eof, threadVars, callbackVars, peerVars, cbLog,
                   log>>

(***************************************************************************)
(* The outbound methods, one socket.send at a time.  Lines 113-141 and     *)
(* 109-111 take no lock, and a thread can be descheduled between any two   *)
(* of a method's sends.  The methods run on the thread that calls them:    *)
(* the caller's, or the listener's when a callback (lines 156, 201, 204)   *)
(* calls them.  A callback is running while its thread is at "notify";     *)
(* UpdateNotify is its return.                                             *)
(***************************************************************************)
InMethod(c, t) == writing[c][t] # NoCall

CanEnter(c, t) ==
    /\ ~InMethod(c, t)
    /\ hist[c].calls < MaxCalls * Cardinality(Threads)
    /\ IF t = "caller" THEN caller[c] \in {"new", "raised", "idle"}
       ELSE listener[c] = "running" /\ pos[c][t] = "notify"

(* Thread t enters the method: w is what the method does to a connected    *)
(* socket left alone, its sends in order and the exception of its encoding *)
(* if it has one.                                                          *)
CallEnter(c, t, op, w) ==
    /\ CanEnter(c, t)
    /\ writing' = [writing EXCEPT ![c][t] = [op |-> op, sends |-> w.sends, err |-> w.err]]
    /\ hist' = [hist EXCEPT ![c].calls = @ + 1]
    /\ UNCHANGED <<rendezvous, sock, inbuf, eof, sent, caller, listener, todo, pos, cur,
                   callbackVars, error, last, peerVars, cbLog, log>>

(* Line 16, 23 or 31: one socket.send.  On a closed socket it raises       *)
(* OSError and the method is left.                                         *)
CallSend(c, t) ==
    /\ InMethod(c, t)
    /\ writing[c][t].sends # <<>>
    /\ IF sock[c] = "connected"
       THEN /\ sent' = [sent EXCEPT ![c] = @ \o Head(writing[c][t].sends)]
            /\ writing' = [writing EXCEPT ![c][t].sends = Tail(@)]
            /\ last' = last
       ELSE /\ sent' = sent
            /\ writing' = [writing EXCEPT ![c][t] = NoCall]
            /\ last' = [last EXCEPT ![c] = <<writing[c][t].op, "OSError">>]
    /\ UNCHANGED <<rendezvous, sock, inbuf, eof, caller, listener, todo, pos, cur,
                   callbackVars, error, peerVars, cbLog, hist, log>>

(* The method has made its sends: it raises what its encoding raised, or   *)
(* returns; stop() closes the socket first (line 111).                     *)
CallReturn(c, t) ==
    /\ InMethod(c, t)
    /\ writing[c][t].sends = <<>>
    /\ writing' = [writing EXCEPT ![c][t] = NoCall]
    /\ last' = [last EXCEPT ![c] = <<writing[c][t].op, writing[c][t].err>>]
    /\ IF writing[c][t].op = "stop" /\ writing[c][t].err = "none"
       THEN \E state \in (IF InRecv(c) THEN {"closed", "held"} ELSE {"closed"}) :
                sock' = [sock EXCEPT ![c] = state]
       ELSE sock' = sock
    /\ UNCHANGED <<rendezvous, inbuf, eof, sent, caller, listener, todo, pos, cur,
                   callbackVars, error, peerVars, cbLog, hist, log>>

(* The processes advertised one send at a time. *)
WriteProcs == {OutProcA}

(* The methods a thread may enter. *)
Enter(c, t) ==
    \/ \E process \in WriteProcs :
           CallEnter(c, t, "addProcess", addProcess(Connected, process))
    \/ \E process \in WriteProcs :
           CallEnter(c, t, "removeProcess", removeProcess(Connected, process))
    \/ CallEnter(c, t, "stop", stop(Connected))

(***************************************************************************)
(* The specifications.                                                     *)
(***************************************************************************)
Outbound(c) ==
    \/ \E process \in OutProcs : AddProcess(c, process)
    \/ \E process \in OutProcs : RemoveProcess(c, process)
    \/ Stop(c)

Next ==
    \E c \in Clients :
        \/ \E ok, added, removed \in BOOLEAN : StartConnect(c, ok, added, removed)
        \/ StartReadVersion(c)
        \/ StartReadAddress(c)
        \/ Outbound(c)
        \/ \E v \in ServerVersions, k \in 0 .. 1 : ServerVersion(c, v, k)
        \/ ServerAddress(c)
        \/ \E n \in ServerCounts : \E k \in SplitPoints(Le32(n)) : ServerCount(c, n, k)
        \/ ServerClose(c)

NextEngine ==
    \E c \in Clients :
        \/ StartReadCount(c)
        \/ \E t \in Threads : UpdateRead(c, t)
        \/ \E t \in Threads : UpdateApply(c, t)
        \/ \E t \in Threads, raises \in BOOLEAN : UpdateNotify(c, t, raises)
        \/ StartListener(c)
        \/ \E n \in ServerCounts : \E k \in SplitPoints(Le32(n)) : ServerCount(c, n, k)
        \/ \E f \in ServerFrames :
               \E k \in SplitPoints(FrameBytes(f)) : ServerFrame(c, f, k)
        \/ ServerClose(c)

NextCalls ==
    \E c \in Clients :
        \/ StartReadCount(c)
        \/ \E t \in Threads : UpdateRead(c, t)
        \/ \E t \in Threads : UpdateApply(c, t)
        \/ \E t \in Threads, raises \in BOOLEAN : UpdateNotify(c, t, raises)
        \/ StartListener(c)
        \/ ~Stopped(c) /\ Outbound(c)
        \/ \E n \in ServerCounts : ServerCount(c, n, 0)
        \/ \E f \in ServerFrames : ServerFrame(c, f, 0)
        \/ ServerClose(c)

Spec == Init /\ [][Next]_vars

SpecEngine == InitEngine /\ [][NextEngine]_vars

SpecCalls == InitEngine /\ [][NextCalls]_vars

(* start() from its first line to its last, without outbound calls: the   *)
(* handshake of Spec from construction, and lines 102-212 as in            *)
(* SpecEngine.                                                             *)
NextStart ==
    \/ NextEngine
    \/ \E c \in Clients :
           \/ \E ok, added, removed \in BOOLEAN : StartConnect(c, ok, added, removed)
           \/ StartReadVersion(c)
           \/ StartReadAddress(c)
           \/ \E v \in ServerVersions, k \in 0 .. 1 : ServerVersion(c, v, k)
           \/ ServerAddress(c)

SpecStart == (Init \/ InitEngine) /\ [][NextStart]_vars

(* The listener beside a caller that makes its outbound calls, also after  *)
(* stop(), and a server that sends whole add and disconnect frames and may *)
(* close, under fair                                                       *)
(* scheduling of the listener's thread: when the listener can take a step  *)
(* it eventually takes one.  Nothing is assumed of the caller or of the    *)
(* server.                                                                 *)
(*                                                                         *)
(* The listener's step is told by its effect: every step of the loop of    *)
(* lines 207-212 moves the listener's place in __readProcessUpdate or ends *)
(* the thread, and no step of another thread does.  The listener can take  *)
(* a step unless it waits in a recv() that has nothing to return.          *)
LiveFrames == {Frame("add", ProcA1), Frame("disconnect", <<>>)}

NextLive ==
    \E c \in Clients :
        \/ StartReadCount(c)
        \/ \E t \in Threads : UpdateRead(c, t)
        \/ \E t \in Threads : UpdateApply(c, t)
        \/ \E t \in Threads, raises \in BOOLEAN : UpdateNotify(c, t, raises)
        \/ StartListener(c)
        \/ Outbound(c)
        \/ \E n \in {0, 1} : ServerCount(c, n, 0)
        \/ \E f \in LiveFrames : ServerFrame(c, f, 0)
        \/ ServerClose(c)

Waiting(c) == InRecv(c) /\ sock[c] \in {"connected", "held"}

ListenerTurn(c) ==
    /\ listener[c] = "running"
    /\ ~Waiting(c)
    /\ \E place \in {"out", "apply", "notify"}, state \in {"running", "done"} :
           /\ pos' = [pos EXCEPT ![c]["listener"] = place]
           /\ listener' = [listener EXCEPT ![c] = state]

listenerVars == <<pos, listener>>

SpecLive ==
    /\ InitEngine
    /\ [][NextLive]_vars
    /\ \A c \in Clients : WF_listenerVars(ListenerTurn(c))

(* The codec end to end: the caller advertises a process with addProcess   *)
(* and the server relays the frame, byte for byte, as it does to the       *)
(* clients connected when a process joins; the listener decodes it.        *)
ServerRelay(c) ==
    /\ srv[c].stage = "frames"
    /\ inbuf[c] = <<>>
    /\ last[c] = <<"addProcess", "none">>
    /\ inbuf' = [inbuf EXCEPT ![c] = <<SubSeq(sent[c], 3, Len(sent[c]))>>]
    /\ srv' = [srv EXCEPT ![c].stage = "relayed"]
    /\ UNCHANGED <<rendezvous, sock, eof, sent, threadVars, callbackVars, last,
                   served, cbLog, hist, log>>

NextCodec ==
    \E c \in Clients :
        \/ StartReadCount(c)
        \/ StartListener(c)
        \/ UpdateRead(c, "listener")
        \/ UpdateApply(c, "listener")
        \/ \E raises \in BOOLEAN : UpdateNotify(c, "listener", raises)
        \/ \E process \in CodecProcs : AddProcess(c, process)
        \/ ServerCount(c, 0, 0)
        \/ ServerRelay(c)

SpecCodec == InitEngine /\ [][NextCodec]_vars

(* Lines 102-212 with the outbound methods one send at a time, on the      *)
(* caller's thread and, from a callback, on the listener's.                *)
NextWrites ==
    \E c \in Clients :
        \/ StartReadCount(c)
        \/ StartListener(c)
        \/ UpdateRead(c, "listener")
        \/ UpdateApply(c, "listener")
        \/ \E raises \in BOOLEAN : UpdateNotify(c, "listener", raises)
        \/ \E t \in Threads : Enter(c, t)
        \/ \E t \in Threads : CallSend(c, t)
        \/ \E t \in Threads : CallReturn(c, t)
        \/ ServerCount(c, 0, 0)
        \/ \E f \in LiveFrames : ServerFrame(c, f, 0)

SpecWrites == InitEngine /\ [][NextWrites]_vars

(* Lines 102-212 against a server whose frames may be wrong, arrive in two *)
(* segments, or stop short where the connection breaks.                    *)
CutFrames == {f \in ServerFrames : f.kind = "add"}

NextCut ==
    \E c \in Clients :
        \/ StartReadCount(c)
        \/ \E t \in Threads : UpdateRead(c, t)
        \/ \E t \in Threads : UpdateApply(c, t)
        \/ \E t \in Threads, raises \in BOOLEAN : UpdateNotify(c, t, raises)
        \/ StartListener(c)
        \/ \E n \in {0, 1} : ServerCount(c, n, 0)
        \/ \E f \in ServerFrames :
               \E k \in SplitPoints(FrameBytes(f)) : ServerFrame(c, f, k)
        \/ \E f \in CutFrames :
               \E k \in 1 .. Len(FrameBytes(f)) - 1 : ServerCut(c, f, k)
        \/ ServerClose(c)

SpecCut == InitEngine /\ [][NextCut]_vars

(* Two clients in one interpreter, each with a server that sends whole     *)
(* well-formed messages; no callbacks, no outbound calls.                  *)
SharedFrames == {Frame("add", ProcA1), Frame("add", ProcB), Frame("remove", NameA)}

NextShared ==
    \E c \in Clients :
        \/ StartReadCount(c)
        \/ \E t \in Threads : UpdateRead(c, t)
        \/ \E t \in Threads : UpdateApply(c, t)
        \/ StartListener(c)
        \/ \E n \in {0, 1} : ServerCount(c, n, 0)
        \/ \E f \in SharedFrames : ServerFrame(c, f, 0)

SpecShared == InitShared /\ [][NextShared]_vars

(***************************************************************************)
(* What the peer has done, read off the history: the expected table and    *)
(* the expected callbacks are computed from the frames the server sent,    *)
(* with a map of their own.                                                *)
(***************************************************************************)
MapPut(d, key, value) == (key :> value) @@ d

MapDel(d, key) == [k \in DOMAIN d \ {key} |-> d[k]]

ApplyFrame(table, f) ==
    IF f.kind = "add" THEN MapPut(table, f.arg.name, f.arg)
    ELSE IF f.kind = "remove" THEN MapDel(table, f.arg)
    ELSE table

RECURSIVE ApplyFrames(_, _)
ApplyFrames(table, frames) ==
    IF frames = <<>> THEN table
    ELSE ApplyFrames(ApplyFrame(table, Head(frames)), Tail(frames))

(* The processCount the server announced, as the loop of line 104 counts. *)
Announced(c) == IF srv[c].count > 0 THEN srv[c].count ELSE 0

(* The server answered with the client's version, then sent the address,   *)
(* a processCount N >= 0 and N well-formed add frames of distinct names,   *)
(* each message in one piece.                                              *)
SnapshotServed(c) ==
    /\ srv[c].stage = "frames"
    /\ srv[c].version = PROTOCOL_VERSION
    /\ srv[c].splits = 0
    /\ srv[c].count >= 0
    /\ Len(served[c]) >= srv[c].count
    /\ \A i \in 1 .. srv[c].count :
           /\ served[c][i] \in GoodFrames
           /\ served[c][i].kind = "add"
           /\ \A j \in 1 .. srv[c].count :
                  served[c][i].arg.name = served[c][j].arg.name => i = j

(* start() was called, connected, and is over: it returned or it raised. *)
StartOver(c) ==
    /\ "version_sent" \in Range(log[c])
    /\ caller[c] \in {"idle", "raised"}

(***************************************************************************)
(* C1 (connect-time synchronization).  Whenever the server has passed the  *)
(* handshake and sent processCount N >= 0 followed by N add frames of      *)
(* distinct names, start() returns normally and on its return the table    *)
(* holds exactly those N processes under their names.                      *)
(***************************************************************************)
C1_SnapshotOnReturn ==
    \A c \in Clients :
        (SnapshotServed(c) /\ StartOver(c)) =>
            /\ caller[c] = "idle"
            /\ error[c]["caller"] = "none"
            /\ hist[c].synced = ApplyFrames(EmptyDict, SubSeq(served[c], 1, srv[c].count))
            /\ Cardinality(DOMAIN hist[c].synced) = srv[c].count

(***************************************************************************)
(* C4 (handshake mismatch).  Whenever the server declares a version other  *)
(* than PROTOCOL_VERSION, the step of start() that reads it fails with the *)
(* protocol-mismatch error, having read exactly the two version bytes and  *)
(* sent nothing beyond the client's own version; the table is unchanged    *)
(* and the listener is not started, then or later.                         *)
(***************************************************************************)
Declared(c) == srv[c].version # 0

C4_MismatchFailsStart ==
    /\ [][\A c \in Clients :
              (caller[c] = "version" /\ caller'[c] # "version" /\ Declared(c)
                  /\ srv[c].version # PROTOCOL_VERSION) =>
                  /\ caller'[c] = "raised"
                  /\ error'[c]["caller"] = "ProtocolMismatch"
                  /\ hist'[c].read = 2
                  /\ sent'[c] = sent[c]
                  /\ sent[c] = <<PROTOCOL_VERSION, 0>>
                  /\ rendezvous' = rendezvous
                  /\ listener'[c] = "none"]_vars
    /\ [](\A c \in Clients :
              (Declared(c) /\ srv[c].version # PROTOCOL_VERSION) =>
                  /\ listener[c] = "none"
                  /\ Table(c) = EmptyDict
                  /\ hist[c].read <= 2)

(***************************************************************************)
(* C5 (connect ordering).  Whenever start() runs against a server with the *)
(* matching version, its steps happen in this order: the socket is opened, *)
(* the client's version is sent, the server's version is read, the count   *)
(* is read, the N snapshot processes are put in the table, and only then   *)
(* is the listener started, once; nothing is read on the listener's thread *)
(* before that.                                                            *)
(***************************************************************************)
StartOrder(n) ==
    <<"open", "version_sent", "version_read", "count_read">>
        \o [i \in 1 .. n |-> "snapshot_update"] \o <<"listener_started">>

C5_ConnectOrder ==
    \A c \in Clients :
        (SnapshotServed(c) /\ StartOver(c)) =>
            log[c] \in {StartOrder(srv[c].count),
                        StartOrder(srv[c].count) \o <<"listener_read">>}

(***************************************************************************)
(* C2 (incremental consistency).  Once the listener is started, the table  *)
(* equals the table start() left, with the frames the listener has applied *)
(* so far applied to it one by one in the order the server sent them: an   *)
(* add puts or overwrites the entry under the process name, a remove       *)
(* deletes the entry of that name.                                         *)
(***************************************************************************)
C2_TableFollowsFrames ==
    \A c \in Clients :
        listener[c] # "none" =>
            /\ hist[c].nsync <= hist[c].applied
            /\ hist[c].applied <= Len(served[c])
            /\ Table(c) = ApplyFrames(hist[c].synced,
                                      SubSeq(served[c], hist[c].nsync + 1,
                                             hist[c].applied))

(* The listener has applied an add and then the remove of that name. *)
C2_Reached ==
    \E c \in Clients :
        /\ listener[c] = "running"
        /\ hist[c].applied = hist[c].nsync + 2
        /\ served[c][hist[c].nsync + 1].kind = "add"
        /\ served[c][hist[c].nsync + 2] = Frame("remove", served[c][hist[c].nsync + 1].arg.name)
        /\ Table(c) = hist[c].synced

(***************************************************************************)
(* C3 (callback fidelity).  The callbacks invoked so far are exactly, in   *)
(* order and once each, those of the frames applied so far: for an add     *)
(* frame onProcessAdded with the decoded process, for a remove frame       *)
(* onProcessRemoved with the process that was stored under the name, each  *)
(* only if that callback is registered.                                    *)
(***************************************************************************)
CallFor(table, f, added, removed) ==
    IF f.kind = "add" /\ added
    THEN <<[cb |-> "onProcessAdded", arg |-> f.arg]>>
    ELSE IF f.kind = "remove" /\ removed /\ f.arg \in DOMAIN table
    THEN <<[cb |-> "onProcessRemoved", arg |-> table[f.arg]]>>
    ELSE <<>>

RECURSIVE ExpectedCalls(_, _, _, _)
ExpectedCalls(table, frames, added, removed) ==
    IF frames = <<>> THEN <<>>
    ELSE CallFor(table, Head(frames), added, removed)
             \o ExpectedCalls(ApplyFrame(table, Head(frames)), Tail(frames), added,
                              removed)

(* The frames whose callback, if any, has been invoked. *)
Notified(c) ==
    IF \E t \in Threads : pos[c][t] = "notify" THEN hist[c].applied - 1
    ELSE hist[c].applied

C3_CallbacksFollowFrames ==
    \A c \in Clients :
        [i \in 1 .. Len(cbLog[c]) |-> [cb |-> cbLog[c][i].cb, arg |-> cbLog[c][i].arg]]
            = ExpectedCalls(EmptyDict, SubSeq(served[c], 1, Notified(c)),
                            onProcessAdded[c], onProcessRemoved[c])

(* Both callbacks registered; the listener added a process and removed    *)
(* it: the removal reported the process that had been stored.             *)
C3_Reached ==
    \E c \in Clients :
        /\ onProcessAdded[c] /\ onProcessRemoved[c]
        /\ Len(cbLog[c]) = 2
        /\ cbLog[c][1] = [cb |-> "onProcessAdded", arg |-> ProcA2, thread |-> "listener"]
        /\ cbLog[c][2] = [cb |-> "onProcessRemoved", arg |-> ProcA2, thread |-> "listener"]

(***************************************************************************)
(* C6 (local advertisements).  A call of addProcess or removeProcess       *)
(* leaves the table as it is, whatever it sends; once start() has          *)
(* returned, the table changes only in a step in which the listener        *)
(* applies a frame it has read.                                            *)
(***************************************************************************)
C6_OutboundLeavesTable ==
    [][\A c \in Clients :
           /\ (hist'[c].calls # hist[c].calls
                  /\ last'[c][1] \in {"addProcess", "removeProcess"}) =>
                  rendezvous' = rendezvous
           /\ (Table(c)' # Table(c) /\ caller[c] = "idle") =>
                  /\ pos[c]["listener"] = "apply"
                  /\ pos'[c]["listener"] # "apply"
                  /\ hist'[c].calls = hist[c].calls]_vars

(* addProcess has sent its frame while the listener runs, and the table    *)
(* holds only what the server announced.                                   *)
C6_Reached ==
    \E c \in Clients :
        /\ last[c] = <<"addProcess", "none">>
        /\ listener[c] = "running"
        /\ Len(sent[c]) > 2
        /\ DOMAIN Table(c) = {NameB}

(***************************************************************************)
(* C7 (callback thread), as the code has it.  The callbacks of the first   *)
(* processCount frames are invoked on the thread that called start(),      *)
(* while start() is running and before the listener exists; all later      *)
(* callbacks are invoked on the listener's thread.                         *)
(***************************************************************************)
SnapshotCalls(c) ==
    Len(ExpectedCalls(EmptyDict,
                      SubSeq(served[c], 1, Min(Announced(c), Len(served[c]))),
                      onProcessAdded[c], onProcessRemoved[c]))

C9_RemoveUnknownEndsListener ==
    [][\A c \in Clients :
           (pos[c]["listener"] = "apply" /\ pos'[c]["listener"] # "apply"
               /\ cur[c]["listener"].kind = "remove"
               /\ cur[c]["listener"].arg \notin DOMAIN Table(c)) =>
               /\ rendezvous' = rendezvous
               /\ cbLog' = cbLog
               /\ listener'[c] = "done"
               /\ error'[c]["listener"] = "KeyError"
               /\ pos'[c]["listener"] = "out"
               /\ hist'[c].applied = hist[c].applied
               /\ caller'[c] = caller[c]
               /\ error'[c]["caller"] = error[c]["caller"]
               /\ last' = last]_vars

(* The listener has ended on the KeyError; the caller has seen nothing. *)
C9_Reached ==
    \E c \in Clients :
        /\ listener[c] = "done"
        /\ error[c] = [caller |-> "none", listener |-> "KeyError"]
        /\ caller[c] = "idle"
        /\ served[c][hist[c].decoded].kind = "remove"

(***************************************************************************)
(* C10 (protocol violation).  When the listener reads a frame with a tag   *)
(* other than 0, 1, 2, an endpoint tag other than 0..3 or a transport      *)
(* other than 0..2, decoding fails: the listener ends without changing the *)
(* table or invoking a callback, it reads no later frame, and nothing is   *)
(* raised on the caller's thread.                                          *)
(***************************************************************************)
ListenerReads(c) ==
    /\ listener[c] = "running"
    /\ pos[c]["listener"] = "out"
    /\ listener'[c] = "done" \/ pos'[c]["listener"] = "apply"

C10_ViolationEndsListener ==
    [][\A c \in Clients :
           /\ (ListenerReads(c) /\ sock[c] = "connected"
                  /\ hist[c].decoded < Len(served[c])
                  /\ served[c][hist[c].decoded + 1] \in BadFrames) =>
                  /\ listener'[c] = "done"
                  /\ error'[c]["listener"] \in {"Exception", "ValueError", "struct.error"}
                  /\ rendezvous' = rendezvous
                  /\ cbLog' = cbLog
                  /\ hist'[c].decoded = hist[c].decoded
                  /\ caller'[c] = caller[c]
                  /\ error'[c]["caller"] = error[c]["caller"]
                  /\ last' = last
           /\ listener[c] = "done" =>
                  /\ listener'[c] = "done"
                  /\ hist'[c].read = hist[c].read
                  /\ hist'[c].decoded = hist[c].decoded
                  /\ rendezvous' = rendezvous
                  /\ cbLog' = cbLog]_vars

(* The listener has ended on an unknown frame tag, with a later frame left *)
(* unread on the connection.                                               *)
C10_Reached ==
    \E c \in Clients :
        /\ listener[c] = "done"
        /\ error[c] = [caller |-> "none", listener |-> "Exception"]
        /\ Len(served[c]) = hist[c].decoded + 2
        /\ served[c][hist[c].decoded + 1] = Frame("other", 7)
        /\ inbuf[c] # <<>>

(***************************************************************************)
(* C11 (disconnect frame).  A frame of tag 0 decoded by the listener is    *)
(* the last frame it decodes: the listener has ended normally, without an  *)
(* exception, having read the bytes up to and including that tag and not   *)
(* one byte more; the table and the callbacks are those of the frames up   *)
(* to it, so no frame the server sent after it is read, changes the table  *)
(* or triggers a callback.                                                 *)
(***************************************************************************)
RECURSIVE WireLen(_)
WireLen(frames) ==
    IF frames = <<>> THEN 0
    ELSE Len(FrameBytes(Head(frames))) + WireLen(Tail(frames))

C11_DisconnectEndsListener ==
    \A c \in Clients :
        listener[c] # "none" =>
            \A i \in hist[c].nsync + 1 .. hist[c].decoded :
                served[c][i].kind = "disconnect" =>
                    /\ i = hist[c].decoded
                    /\ listener[c] = "done"
                    /\ pos[c]["listener"] = "out"
                    /\ error[c]["listener"] = "none"
                    /\ hist[c].read = 4 + WireLen(SubSeq(served[c], 1, i))
                    /\ hist[c].applied = i
                    /\ Table(c) = ApplyFrames(hist[c].synced,
                                              SubSeq(served[c], hist[c].nsync + 1, i))
                    /\ Len(cbLog[c]) =
                           Len(ExpectedCalls(EmptyDict, SubSeq(served[c], 1, i),
                                             onProcessAdded[c], onProcessRemoved[c]))

(* The listener has ended on a tag-0 frame and the add frame the server    *)
(* sent after it lies unread on the connection, absent from the table.     *)
C11_Reached ==
    \E c \in Clients :
        /\ listener[c] = "done"
        /\ error[c]["listener"] = "none"
        /\ hist[c].decoded > hist[c].nsync
        /\ served[c][hist[c].decoded].kind = "disconnect"
        /\ Len(served[c]) = hist[c].decoded + 1
        /\ served[c][Len(served[c])].kind = "add"
        /\ inbuf[c] # <<>>
        /\ served[c][Len(served[c])].arg.name \notin DOMAIN Table(c)

(***************************************************************************)
(* C12 (transport close).  Whenever the listener is running and the        *)
(* transport is closed, by the peer or by stop() on the caller's thread,   *)
(* the listener, scheduled fairly, eventually ends; a socket once closed   *)
(* is never connected again.                                               *)
(***************************************************************************)
ClosedByPeer(c) == eof[c]

ClosedByStop(c) == sock[c] \in {"closed", "held"}

C12_WokenListenerEnds ==
    \A c \in Clients :
        (listener[c] = "running" /\ (ClosedByPeer(c) \/ sock[c] = "closed"))
            ~> (listener[c] = "done")

(* The listener's read of line 189 waits exactly when Waiting says so, and *)
(* a step that moves the listener is a step of __readProcessUpdate on its  *)
(* thread: the fairness of SpecLive is fairness of the listener's steps.   *)
ListenerTurnIsItsStep ==
    /\ [](\A c \in Clients :
              (listener[c] = "running" /\ pos[c]["listener"] = "out") =>
                  (Waiting(c) <=> DecodeUpdate(Conn(c)).tag = "block"))
    /\ [][\A c \in Clients :
              (listener[c] = "running" /\ listenerVars' # listenerVars) =>
                  /\ ~Waiting(c)
                  /\ pos'[c]["caller"] = pos[c]["caller"]
                  /\ caller' = caller /\ last' = last /\ peerVars' = peerVars]_vars

(***************************************************************************)
(* C13 (add-frame round trip).  Whenever addProcess has emitted the frame  *)
(* of a process whose strings all encode to at most 127 bytes and the      *)
(* listener has read those bytes, the listener has decoded a process       *)
(* record identical to the original and has consumed exactly the bytes     *)
(* emitted.                                                                *)
(***************************************************************************)
Emitted(c) == SubSeq(sent[c], 3, Len(sent[c]))

Advertised(c, process) ==
    /\ last[c] = <<"addProcess", "none">>
    /\ addProcess(Connected, process).out = Emitted(c)

RelayRead(c) == srv[c].stage = "relayed" /\ hist[c].read > 4

AsBytes(str) == Bytes(Utf8(str[2]))

StreamAsBytes(st) == createStream(AsBytes(st.name), AsBytes(st.type))

StreamsAsBytes(streams) == [i \in DOMAIN streams |-> StreamAsBytes(streams[i])]

EndpointAsBytes(e) ==
    IF e.endpoint = TcpSource
    THEN createTcpEndpoint(AsBytes(e.host), e.port, StreamsAsBytes(e.streams))
    ELSE IF e.endpoint = NetMQSource
    THEN createNetMQEndpoint(AsBytes(e.address), StreamsAsBytes(e.streams))
    ELSE IF e.endpoint = RemoteExporter
    THEN createRemoteExporterEndpoint(AsBytes(e.host), e.port, e.transport,
                                      StreamsAsBytes(e.streams))
    ELSE createRemoteClockExporterEndpoint(AsBytes(e.host), e.port)

ProcessAsBytes(process) ==
    createProcess(AsBytes(process.name),
                  [i \in DOMAIN process.endpoints |->
                      EndpointAsBytes(process.endpoints[i])],
                  AsBytes(process.version))

C13_RoundTripAsBytes ==
    \A c \in Clients, process \in CodecProcs :
        (Advertised(c, process) /\ RelayRead(c)) =>
            /\ hist[c].decoded = 1
            /\ hist[c].read = 4 + Len(Emitted(c))
            /\ inbuf[c] = <<>>
            /\ pos[c]["listener"] # "out" =>
                   cur[c]["listener"] = Frame("add", ProcessAsBytes(process))

(* The listener has decoded the relayed frame of the process that has all  *)
(* four endpoint variants.                                                 *)
C13_Reached ==
    \E c \in Clients :
        /\ Advertised(c, OutAllKinds)
        /\ RelayRead(c)
        /\ pos[c]["listener"] = "apply"

(***************************************************************************)
(* C14 (string length limit).  A call of addProcess emits, field by field, *)
(* the frame of its process up to the first string whose encoding is       *)
(* longer than 127 bytes: if there is none the call succeeds and the whole *)
(* frame is emitted, a string of exactly 127 bytes as the length byte 127  *)
(* and its 127 bytes, which the reader decodes to the same 127 bytes; if   *)
(* there is one the call fails with struct.error and nothing of that       *)
(* string, whole or cut, is emitted.                                       *)
(***************************************************************************)
StringField(str) == [limited |-> TRUE, raw |-> Utf8(str[2])]

NumberField(bs) == [limited |-> FALSE, raw |-> bs]

RECURSIVE StreamFields(_)
StreamFields(streams) ==
    IF streams = <<>> THEN <<>>
    ELSE <<StringField(Head(streams).name), StringField(Head(streams).type)>>
             \o StreamFields(Tail(streams))

EndpointFields(e) ==
    <<NumberField(<<e.endpoint>>)>>
    \o (IF e.endpoint = TcpSource THEN <<StringField(e.host), NumberField(Le32(e.port))>>
        ELSE IF e.endpoint = NetMQSource THEN <<StringField(e.address)>>
        ELSE IF e.endpoint = RemoteExporter
        THEN <<StringField(e.host), NumberField(Le32(e.port)),
               NumberField(Le32(e.transport))>>
        ELSE <<StringField(e.host), NumberField(Le32(e.port))>>)
    \o <<NumberField(Le32(Len(e.streams)))>>
    \o StreamFields(e.streams)

RECURSIVE EndpointsFields(_)
EndpointsFields(es) ==
    IF es = <<>> THEN <<>> ELSE EndpointFields(Head(es)) \o EndpointsFields(Tail(es))

ProcessFields(process) ==
    <<NumberField(<<1>>), StringField(process.name), StringField(process.version),
      NumberField(Le32(Len(process.endpoints)))>>
    \o EndpointsFields(process.endpoints)

TooLong(field) == field.limited /\ Len(field.raw) > MaxStringBytes

Fits(process) == \A field \in Range(ProcessFields(process)) : ~TooLong(field)

RECURSIVE FieldsEmitted(_)
FieldsEmitted(fields) ==
    IF fields = <<>> \/ TooLong(Head(fields)) THEN <<>>
    ELSE (IF Head(fields).limited THEN <<Len(Head(fields).raw)>> ELSE <<>>)
             \o Head(fields).raw \o FieldsEmitted(Tail(fields))

C14_StringLimit ==
    /\ [][\A c \in Clients, process \in CodecProcs :
              AddProcess(c, process) =>
                  /\ sent'[c] = sent[c] \o FieldsEmitted(ProcessFields(process))
                  /\ last'[c] = <<"addProcess",
                                  IF Fits(process) THEN "none" ELSE "struct.error">>]_vars
    /\ [](\A c \in Clients :
              (Advertised(c, OutLongest) /\ RelayRead(c)
                  /\ pos[c]["listener"] # "out") =>
                  /\ SubSeq(Emitted(c), 1, 3) = <<1, MaxStringBytes, 120>>
                  /\ cur[c]["listener"].arg.name = Bytes(Repeat(120, MaxStringBytes)))

(* addProcess has failed at a stream type 128 bytes long: what went out    *)
(* ends with the stream's name, whole, and nothing of the type.            *)
C14_Reached ==
    \E c \in Clients :
        /\ last[c] = <<"addProcess", "struct.error">>
        /\ ~Fits(OutTooLongStream)
        /\ Emitted(c) = FieldsEmitted(ProcessFields(OutTooLongStream))
        /\ SubSeq(Emitted(c), Len(Emitted(c)) - 1, Len(Emitted(c))) = <<1, 114>>

(* A name of exactly 127 bytes has been sent, relayed and decoded. *)
C14_LongestReached ==
    \E c \in Clients :
        /\ Advertised(c, OutLongest)
        /\ RelayRead(c)
        /\ pos[c]["listener"] = "apply"
        /\ Len(cur[c]["listener"].arg.name[2]) = MaxStringBytes

(***************************************************************************)
(* C15 (disconnect ordering).  A stop() on a connected socket writes       *)
(* exactly one byte, the tag 0, and leaves the socket closed: the byte is  *)
(* written before the close, for a write after it fails.  Once stop() has  *)
(* closed the socket it stays closed and the client writes no further      *)
(* byte; every later addProcess, removeProcess or stop() fails with        *)
(* OSError and sends nothing.                                              *)
(***************************************************************************)
Calls(c) == hist'[c].calls # hist[c].calls

StartPlaces == {"new", "version", "address", "count", "sync"}

StartStep(c) ==
    /\ caller[c] \in StartPlaces
    /\ \/ caller'[c] # caller[c]
       \/ pos'[c]["caller"] # pos[c]["caller"]
       \/ todo'[c] # todo[c]

Failing(c) ==
    \/ caller[c] = "new" /\ sock'[c] # "connected"
    \/ caller[c] = "version" /\ ReadProtocolVersion(Conn(c)).tag = "raise"
    \/ caller[c] = "address"
    \/ caller[c] = "count" /\ ReadInt(Conn(c)).tag = "raise"
    \/ /\ caller[c] = "sync"
       /\ pos[c]["caller"] = "out"
       /\ todo[c] > 0
       /\ DecodeUpdate(Conn(c)).tag = "raise"
    \/ /\ caller[c] = "sync"
       /\ pos[c]["caller"] = "apply"
       /\ cur[c]["caller"].kind = "remove"
       /\ cur[c]["caller"].arg \notin DOMAIN Table(c)

C16_StartFailuresRaised ==
    /\ [][\A c \in Clients :
              /\ (StartStep(c) /\ Failing(c)) =>
                     /\ caller'[c] = "raised"
                     /\ error'[c]["caller"] # "none"
                     /\ error'[c]["listener"] = "none"
                     /\ listener'[c] = "none"
              /\ caller[c] = "raised" =>
                     /\ caller'[c] = "raised"
                     /\ listener'[c] = "none"]_vars
    /\ [](\A c \in Clients :
              /\ error[c]["caller"] # "none" <=> caller[c] = "raised"
              /\ caller[c] \in StartPlaces \cup {"raised"} => listener[c] = "none")

(* start() has raised ValueError out of the second snapshot frame, whose   *)
(* endpoint tag is unknown; the first frame is in the table and no         *)
(* listener exists.                                                        *)
C16_Reached ==
    \E c \in Clients :
        /\ caller[c] = "raised"
        /\ error[c] = [caller |-> "ValueError", listener |-> "none"]
        /\ listener[c] = "none"
        /\ srv[c].count = 2
        /\ hist[c].returned = 1
        /\ served[c][2] = Frame("add", ProcBadEndpoint)

(***************************************************************************)
(* C17 (short reads).  Whenever the server has sent only well-formed       *)
(* messages and has not closed, in however many pieces they arrive, no     *)
(* read has failed for want of bytes, on either thread, and a frame that   *)
(* has been decoded is the frame that was sent.                            *)
(***************************************************************************)
WellFormedSoFar(c) == ~eof[c] /\ Range(served[c]) \subseteq GoodFrames

C17_ShortReadsCompleted ==
    \A c \in Clients :
        WellFormedSoFar(c) =>
            \A t \in Threads :
                /\ error[c][t] # "struct.error"
                /\ pos[c][t] = "apply" => cur[c][t] = served[c][hist[c].decoded]

(* The same with every message arriving in one piece: this holds. *)
C17_WholeReadsDecode ==
    \A c \in Clients :
        (WellFormedSoFar(c) /\ srv[c].splits = 0) =>
            \A t \in Threads :
                /\ error[c][t] # "struct.error"
                /\ pos[c][t] = "apply" => cur[c][t] = served[c][hist[c].decoded]

(***************************************************************************)
(* C18 (stream count).  In the frame addProcess emits, every endpoint is   *)
(* followed by a 32-bit stream count equal to the number of its streams    *)
(* and by exactly that many (name, type) records; a RemoteClockExporter is *)
(* followed by the count 0 and no record.  The reader of the frame takes   *)
(* for every endpoint exactly the records its count declares: it yields    *)
(* as many streams per endpoint as were written and consumes the frame to  *)
(* its last byte.                                                          *)
(***************************************************************************)
EndpointHead(e) == SubSeq(EndpointFields(e), 1, Len(EndpointFields(e)) - 1 - 2 * Len(e.streams))

EndpointImage(e) ==
    FieldsEmitted(EndpointHead(e)) \o Le32(Len(e.streams))
        \o FieldsEmitted(StreamFields(e.streams))

RECURSIVE EndpointImages(_)
EndpointImages(es) ==
    IF es = <<>> THEN <<>> ELSE EndpointImage(Head(es)) \o EndpointImages(Tail(es))

EndpointsAt(c, process) ==
    SubSeq(Emitted(c),
           Len(Emitted(c)) - Len(EndpointImages(process.endpoints)) + 1,
           Len(Emitted(c)))

WholeFrames ==
    {addProcess(Connected, process).out : process \in WriteProcs}
        \cup {removeProcess(Connected, process).out : process \in WriteProcs}
        \cup {stop(Connected).out}

StartsWith(bs, f) == Len(f) <= Len(bs) /\ SubSeq(bs, 1, Len(f)) = f

RECURSIVE RunOfFrames(_)
RunOfFrames(bs) ==
    \/ \E f \in WholeFrames : StartsWith(f, bs)
    \/ \E f \in WholeFrames :
           StartsWith(bs, f) /\ RunOfFrames(SubSeq(bs, Len(f) + 1, Len(bs)))

EncodingFailures == {"struct.error", "Exception"}

(* C22: a call of addProcess that raises over a string too long or an      *)
(* endpoint of unknown kind leaves the bytes written as they were before   *)
(* the call.                                                               *)
C22_FailedAddSendsNothing ==
    [][\A c \in Clients :
          (Calls(c) /\ last'[c][1] = "addProcess" /\ last'[c][2] \in EncodingFailures)
              => sent'[c] = sent[c]]_vars

(***************************************************************************)
(* C23.  The frames of the snapshot are add-process frames.                *)
(***************************************************************************)
(* The snapshot frames start() has gone past without raising. *)
SnapshotPassed(c) ==
    IF listener[c] # "none" THEN hist[c].nsync
    ELSE IF caller[c] = "sync" THEN hist[c].returned
    ELSE 0

AddAhead(c, t) == AtCall(c, t) /\ inbuf[c] # <<>> /\ Head(inbuf[c])[1] = 1

(* The call of __readProcessUpdate that thread t is in ends by raising. *)
Raises(c, t) == error'[c][t] # error[c][t]

(* C24: when the decoding of an add-process frame raises, over an endpoint *)
(* or transport of unknown kind, a value cut short, or the stream ending   *)
(* inside the frame, the table and the callbacks invoked are as they were  *)
(* before the frame; and every entry of the table is the whole process of  *)
(* a frame the server sent whole.                                          *)
C24_AddAllOrNothing ==
    /\ [][\A c \in Clients, t \in Threads :
              (AddAhead(c, t) /\ Raises(c, t)) =>
                  /\ rendezvous' = rendezvous
                  /\ cbLog' = cbLog
                  /\ pos'[c][t] = "out"
                  /\ hist'[c].applied = hist[c].applied]_vars
    /\ [](\A c \in Clients :
              sock[c] # "new" =>
                  \A name \in DOMAIN Table(c) :
                      \E i \in 1 .. Len(served[c]) :
                          served[c][i] = Frame("add", Table(c)[name]))

(* The stream has ended inside an add-process frame that followed another  *)
(* one: the listener has ended on it and the table holds the first.        *)
C24_Reached ==
    \E c \in Clients :
        /\ listener[c] = "done"
        /\ error[c]["listener"] = "struct.error"
        /\ eof[c]
        /\ hist[c].decoded = Len(served[c])
        /\ hist[c].read > 4 + WireLen(served[c])
        /\ srv[c].splits = 0
        /\ DOMAIN Table(c) # {}

(***************************************************************************)
(* C25.  The table is updated before the callback is invoked.              *)
(***************************************************************************)
(* The table as the callback for update u finds it. *)
Updated(c, u) ==
    IF u.kind = "add"
    THEN u.arg.name \in DOMAIN Table(c) /\ Table(c)[u.arg.name] = u.arg
    ELSE u.arg.name \notin DOMAIN Table(c)

LastCallback(c) == cbLog[c][Len(cbLog[c])]

(* C25: when a thread is about to invoke onProcessAdded(p) the table maps  *)
(* p's name to p, and when it is about to invoke onProcessRemoved(p) the   *)
(* table has no entry for p's name; a listener whose callback raised has   *)
(* ended, and the table has the update that callback was invoked for.      *)
C25_TableBeforeCallback ==
    \A c \in Clients :
        /\ \A t \in Threads : pos[c][t] = "notify" => Updated(c, cur[c][t])
        /\ error[c]["listener"] = "CallbackError" =>
               /\ listener[c] = "done"
               /\ Updated(c, [kind |-> IF LastCallback(c).cb = "onProcessAdded" THEN "add"
                                       ELSE "remove",
                               arg |-> LastCallback(c).arg])

(* The listener has ended on an exception raised by onProcessRemoved, and  *)
(* a running listener is about to invoke onProcessAdded.                   *)
C25_Reached ==
    \E c \in Clients :
        /\ error[c]["listener"] = "CallbackError"
        /\ LastCallback(c).cb = "onProcessRemoved"
        /\ LastCallback(c).thread = "listener"

C25_OnAddReached ==
    \E c \in Clients :
        /\ listener[c] = "running"
        /\ pos[c]["listener"] = "notify"
        /\ cur[c]["listener"].kind = "add"
        /\ DOMAIN Table(c) = {cur[c]["listener"].arg.name}

====
